---- MODULE Spec2Model ----
(***************************************************************************)
(* Model of the screenshot utility's logic:                                *)
(*   - the shortcut codec of src/src/shortcutFormat.ts                     *)
(*     (normalizeShortcutString, formatShortcutForDisplay),                *)
(*   - the stitch run: the "stitch-images" listener of the settings window *)
(*     (src/unnamed/part_004) and stitchImages (src/unnamed/part_006),     *)
(*   - the settings window (src/unnamed/part_004, src/src/App.tsx) with    *)
(*     the shortcut recorder popup and the host's update_shortcuts         *)
(*     (src/unnamed/part_002), and                                         *)
(*   - the filename-template editor (src/src/FilenameTemplate.tsx).        *)
(*                                                                         *)
(* A JavaScript string is modelled as a sequence of one-character strings, *)
(* so that split, trim, toLowerCase, the regular expressions and replace   *)
(* are computed character by character as the code computes them.          *)
(***************************************************************************)
EXTENDS Integers, Sequences, FiniteSets, TLC

VARIABLES
    \* ---- shortcut codec ----
    shortcut,       \* the raw string handed to the codec
    cpc,            \* "typing" | "normalized" | "formatted" | "renormalized"
    normalized,     \* normalizeShortcutString(shortcut), or Unset
    displayed,      \* formatShortcutForDisplay(shortcut), or Unset
    renormalized,   \* normalizeShortcutString(normalized), or Unset
    \* ---- stitch run ----
    spc,            \* position of the stitch-images listener
    paths,          \* result of get_finder_selection (a sequence of files)
    fetched,        \* indices whose read_original_image_base64 resolved
    loaded,         \* indices whose loadImage resolved
    images,         \* the array Promise.all fills with the decoded images
    outOfOrder,     \* history: which steps completed ahead of an earlier index
    result,         \* StitchResult returned by stitchImages, or NoResult
    error,          \* the value caught by the listener's catch, or NoError
    calls,          \* calls made in the current run, in order
    runs,           \* number of stitch-images events handled so far
    \* ---- settings window ----
    settings,             \* the settings state of App
    lastSavedSettings,    \* the settings last loaded or saved, or NotLoaded
    saveStatus,           \* "idle" | "dirty" | "saving" | "saved" | "error"
    saveStatusTimeoutRef, \* whether the status-reset timer is pending
    shortcutError,        \* the message under the shortcuts, or NoShortcutError
    blocks,               \* the blocks state of the template editor
    popup,                \* the shortcut recorder popup
    updates,              \* the update_shortcuts calls of the listener, in order
    hostSettings,         \* the settings held by the host
    registered,           \* the shortcuts registered with the OS
    configs,              \* number of recorder popups opened so far
    moves,                \* number of moveBlock calls made so far
    showFilenameTemplate, \* whether the filename-template view is shown
    saves,                \* the settings of the save_settings calls in flight
    persisted             \* the settings save_settings persisted last

codecVars  == <<shortcut, cpc, normalized, displayed, renormalized>>
stitchVars == <<spc, paths, fetched, loaded, images, outOfOrder, result, error,
               calls, runs>>
panelVars  == <<showFilenameTemplate, saves, persisted>>
windowVars == <<settings, lastSavedSettings, saveStatus, saveStatusTimeoutRef,
               shortcutError, blocks, popup, updates, hostSettings, registered,
               configs, moves, panelVars>>
vars       == <<codecVars, stitchVars, windowVars>>

----------------------------------------------------------------------------
(* Bounds of the model.                                                    *)

\* Largest number of '+'-separated tokens of an input string.
MaxTokens == 3
\* Largest number of files get_finder_selection returns.
MaxSelection == 9
\* Length of the repeating pattern of files in a selection.
PatternLen == 2
\* Number of stitch-images events handled.
MaxRuns == 2
\* Number of times the shortcut recorder popup is opened.
MaxConfigs == 2
\* Number of times a block of the filename template is moved.
MaxMoves == 2
\* Number of save_settings calls in flight at a time.
MaxSaves == 2
\* Number of '+'-separated tokens of the inputs an input is compared with.
MaxOtherTokens == 2

----------------------------------------------------------------------------
(* Characters and strings.                                                 *)

LowerAlpha == <<"a","b","c","d","e","f","g","h","i","j","k","l","m",
                "n","o","p","q","r","s","t","u","v","w","x","y","z">>
UpperAlpha == <<"A","B","C","D","E","F","G","H","I","J","K","L","M",
                "N","O","P","Q","R","S","T","U","V","W","X","Y","Z">>
DigitChars == {"0","1","2","3","4","5","6","7","8","9"}

\* null / undefined: a one-element sequence whose element is no character,
\* so it differs from every string and can be compared with strings.
Null == <<"null">>
\* A result variable before its operation has run.
Unset == <<"unset">>

\* The four glyphs of formatShortcutForDisplay, one character each.
GlyphCmd   == "U+2318"
GlyphShift == "U+21E7"
GlyphAlt   == "U+2325"
GlyphCtrl  == "U+2303"
\* The backslash and backquote characters.
Backslash == "U+005C"
Backquote == "U+0060"

LowerLetters == { LowerAlpha[i] : i \in 1..26 }
UpperLetters == { UpperAlpha[i] : i \in 1..26 }
LowerOfUpper == [c \in UpperLetters |-> LowerAlpha[CHOOSE i \in 1..26 : UpperAlpha[i] = c]]
UpperOfLower == [c \in LowerLetters |-> UpperAlpha[CHOOSE i \in 1..26 : LowerAlpha[i] = c]]

IsLowerLetter(c) == c \in LowerLetters
IsUpperLetter(c) == c \in UpperLetters

toLowerCaseChar(c) == IF IsUpperLetter(c) THEN LowerOfUpper[c] ELSE c
toUpperCaseChar(c) == IF IsLowerLetter(c) THEN UpperOfLower[c] ELSE c

toLowerCase(s) == [i \in 1..Len(s) |-> toLowerCaseChar(s[i])]
toUpperCase(s) == [i \in 1..Len(s) |-> toUpperCaseChar(s[i])]

\* String.prototype.trim over the whitespace of the input alphabet.
RECURSIVE trimStart(_)
trimStart(s) == IF s # <<>> /\ Head(s) = " " THEN trimStart(Tail(s)) ELSE s
RECURSIVE trimEnd(_)
trimEnd(s) == IF s # <<>> /\ s[Len(s)] = " " THEN trimEnd(SubSeq(s, 1, Len(s) - 1)) ELSE s
trim(s) == trimEnd(trimStart(s))

\* s.split("+"): the pieces between the delimiters, empty pieces included.
RECURSIVE splitFrom(_, _, _)
splitFrom(s, i, piece) ==
    IF i > Len(s) THEN <<piece>>
    ELSE IF s[i] = "+" THEN <<piece>> \o splitFrom(s, i + 1, <<>>)
    ELSE splitFrom(s, i + 1, Append(piece, s[i]))
split(s) == splitFrom(s, 1, <<>>)

\* parts.join("+")
RECURSIVE join(_)
join(parts) ==
    IF parts = <<>> THEN <<>>
    ELSE IF Len(parts) = 1 THEN parts[1]
    ELSE parts[1] \o <<"+">> \o join(Tail(parts))

\* s.replace(/pat/g, rep): every non-overlapping occurrence, left to right.
StartsWith(s, i, pat) ==
    /\ i + Len(pat) - 1 <= Len(s)
    /\ SubSeq(s, i, i + Len(pat) - 1) = pat
RECURSIVE replaceAllFrom(_, _, _, _)
replaceAllFrom(s, i, pat, rep) ==
    IF i > Len(s) THEN <<>>
    ELSE IF StartsWith(s, i, pat) THEN rep \o replaceAllFrom(s, i + Len(pat), pat, rep)
    ELSE <<s[i]>> \o replaceAllFrom(s, i + 1, pat, rep)
replaceAll(s, pat, rep) == replaceAllFrom(s, 1, pat, rep)

----------------------------------------------------------------------------
(* The shortcut codec: src/src/shortcutFormat.ts                           *)

MODIFIER_ORDER == <<"Cmd", "Shift", "Alt", "Ctrl">>

\* The characters of a modifier name.
ModifierName(m) ==
    CASE m = "Cmd"   -> <<"C","m","d">>
      [] m = "Shift" -> <<"S","h","i","f","t">>
      [] m = "Alt"   -> <<"A","l","t">>
      [] m = "Ctrl"  -> <<"C","t","r","l">>

\* MODIFIER_ALIASES[name]: a property read on an object literal.  The own
\* properties are the nine aliases; a name that is no own property is looked
\* up on Object.prototype, whose all-lower-case properties are "constructor"
\* (the Object function) and "__proto__" (Object.prototype itself); every
\* other name reads undefined.
MODIFIER_ALIASES(name) ==
    CASE name = <<"c","m","d">>                         -> "Cmd"
      [] name = <<"c","o","m","m","a","n","d">>         -> "Cmd"
      [] name = <<"s","u","p","e","r">>                 -> "Cmd"
      [] name = <<"m","e","t","a">>                     -> "Cmd"
      [] name = <<"s","h","i","f","t">>                 -> "Shift"
      [] name = <<"a","l","t">>                         -> "Alt"
      [] name = <<"o","p","t","i","o","n">>             -> "Alt"
      [] name = <<"c","t","r","l">>                     -> "Ctrl"
      [] name = <<"c","o","n","t","r","o","l">>         -> "Ctrl"
      [] name = <<"c","o","n","s","t","r","u","c","t","o","r">> -> "function Object"
      [] name = <<"_","_","p","r","o","t","o","_","_">> -> "Object.prototype"
      [] OTHER                                          -> "undefined"

\* The lookup of a part without lower-casing it first.
lookupModifierCaseSensitive(part) == MODIFIER_ALIASES(part)

\* MODIFIER_ALIASES[part.toLowerCase()]
lookupModifier(part) == MODIFIER_ALIASES(toLowerCase(part))

\* JavaScript truthiness of a value read from MODIFIER_ALIASES.
Truthy(v) == v # "undefined"

IsDigitString(s) == Len(s) = 1 /\ s[1] \in DigitChars

\* /^f([1-9]|1[0-2])$/
IsFunctionKey(lower) ==
    \/ /\ Len(lower) = 2
       /\ lower[1] = "f"
       /\ lower[2] \in DigitChars \ {"0"}
    \/ /\ Len(lower) = 3
       /\ lower[1] = "f"
       /\ lower[2] = "1"
       /\ lower[3] \in {"0", "1", "2"}

\* The switch that ends normalizeKeyToken, without the case "escape".
namedKeyWithoutEscape(lower) ==
    CASE lower = <<"s","p","a","c","e">>                 -> <<"S","p","a","c","e">>
      [] lower = <<"e","n","t","e","r">>                 -> <<"E","n","t","e","r">>
      [] lower = <<"t","a","b">>                         -> <<"T","a","b">>
      [] lower = <<"e","s","c">>                         -> <<"E","s","c","a","p","e">>
      [] lower = <<"b","a","c","k","s","p","a","c","e">> -> <<"B","a","c","k","s","p","a","c","e">>
      [] OTHER                                           -> Null

\* The switch that ends normalizeKeyToken (lines 71-85).
namedKey(lower) ==
    CASE lower = <<"s","p","a","c","e">>                 -> <<"S","p","a","c","e">>
      [] lower = <<"e","n","t","e","r">>                 -> <<"E","n","t","e","r">>
      [] lower = <<"t","a","b">>                         -> <<"T","a","b">>
      [] lower = <<"e","s","c","a","p","e">>             -> <<"E","s","c","a","p","e">>
      [] lower = <<"e","s","c">>                         -> <<"E","s","c","a","p","e">>
      [] lower = <<"b","a","c","k","s","p","a","c","e">> -> <<"B","a","c","k","s","p","a","c","e">>
      [] OTHER                                           -> Null

normalizeKeyToken(token) ==
    LET trimmed == trim(token)
        lower   == toLowerCase(trimmed)
    IN  IF trimmed = <<>> THEN Null
        ELSE IF lower = <<"m","i","n","u","s">> \/ trimmed = <<"-">> THEN <<"-">>
        ELSE IF \/ lower = <<"e","q","u","a","l">>
                \/ lower = <<"e","q","u","a","l","s">>
                \/ trimmed = <<"=">> THEN <<"=">>
        ELSE IF \/ lower = <<"b","r","a","c","k","e","t","l","e","f","t">>
                \/ lower = <<"l","b","r","a","c","k","e","t">>
                \/ trimmed = <<"[">> THEN <<"[">>
        ELSE IF \/ lower = <<"b","r","a","c","k","e","t","r","i","g","h","t">>
                \/ lower = <<"r","b","r","a","c","k","e","t">>
                \/ trimmed = <<"]">> THEN <<"]">>
        ELSE IF lower = <<"s","e","m","i","c","o","l","o","n">> \/ trimmed = <<";">> THEN <<";">>
        ELSE IF lower = <<"q","u","o","t","e">> \/ trimmed = <<"'">> THEN <<"'">>
        ELSE IF lower = <<"c","o","m","m","a">> \/ trimmed = <<",">> THEN <<",">>
        ELSE IF lower = <<"p","e","r","i","o","d">> \/ trimmed = <<".">> THEN <<".">>
        ELSE IF lower = <<"s","l","a","s","h">> \/ trimmed = <<"/">> THEN <<"/">>
        ELSE IF lower = <<"b","a","c","k","s","l","a","s","h">> \/ trimmed = <<Backslash>> THEN <<Backslash>>
        ELSE IF \/ lower = <<"b","a","c","k","q","u","o","t","e">>
                \/ lower = <<"g","r","a","v","e">>
                \/ trimmed = <<Backquote>> THEN <<Backquote>>
        ELSE IF lower = <<"i","n","t","l","b","a","c","k","s","l","a","s","h">> THEN <<Backslash>>
        ELSE IF /\ Len(lower) = 6
                /\ SubSeq(lower, 1, 5) = <<"d","i","g","i","t">>
                /\ lower[6] \in DigitChars THEN <<lower[6]>>
        ELSE IF IsDigitString(trimmed) THEN trimmed
        ELSE IF /\ Len(lower) = 4
                /\ SubSeq(lower, 1, 3) = <<"k","e","y">>
                /\ IsLowerLetter(lower[4]) THEN toUpperCase(<<lower[4]>>)
        ELSE IF Len(lower) = 1 /\ IsLowerLetter(lower[1]) THEN toUpperCase(lower)
        ELSE IF IsFunctionKey(lower) THEN toUpperCase(lower)
        ELSE namedKey(lower)

\* shortcut.split("+").map(part => part.trim()).filter(Boolean)
splitParts(s) ==
    LET pieces       == split(s)
        trimmedParts == [i \in 1..Len(pieces) |-> trim(pieces[i])]
    IN  SelectSeq(trimmedParts, LAMBDA p : p # <<>>)

\* The for-loop of normalizeShortcutString from part i on, with the set of
\* modifiers and the key found so far; returned is FALSE after an early
\* "return null" of the loop.
ScanFailed == [returned |-> FALSE, modifiers |-> {}, key |-> Null]
RECURSIVE scanParts(_, _, _, _)
scanParts(parts, i, modifiers, key) ==
    IF i > Len(parts) THEN [returned |-> TRUE, modifiers |-> modifiers, key |-> key]
    ELSE LET mapped == lookupModifier(parts[i])
         IN  IF Truthy(mapped) THEN scanParts(parts, i + 1, modifiers \cup {mapped}, key)
             ELSE IF key # Null THEN ScanFailed
             ELSE LET normalizedKey == normalizeKeyToken(parts[i])
                  IN  IF normalizedKey = Null THEN ScanFailed
                      ELSE scanParts(parts, i + 1, modifiers, normalizedKey)

\* The first modifier of MODIFIER_ORDER alone.
orderedModifiersFirstOnly(modifiers) ==
    LET kept == SelectSeq(MODIFIER_ORDER, LAMBDA m : m \in modifiers)
    IN  [i \in 1..(IF Len(kept) > 0 THEN 1 ELSE 0) |-> ModifierName(kept[i])]

\* The modifiers emitted in the reverse of MODIFIER_ORDER.
orderedModifiersReversed(modifiers) ==
    LET kept == SelectSeq(<<"Ctrl", "Alt", "Shift", "Cmd">>, LAMBDA m : m \in modifiers)
    IN  [i \in 1..Len(kept) |-> ModifierName(kept[i])]

\* MODIFIER_ORDER.filter(modifier => modifiers.has(modifier)), as names.
orderedModifiers(modifiers) ==
    LET kept == SelectSeq(MODIFIER_ORDER, LAMBDA m : m \in modifiers)
    IN  [i \in 1..Len(kept) |-> ModifierName(kept[i])]

normalizeShortcutString(s) ==
    IF s = <<>> \/ s = Null THEN Null
    ELSE LET parts == splitParts(s)
         IN  IF Len(parts) < 2 THEN Null
             ELSE LET scanned == scanParts(parts, 1, {}, Null)
                  IN  IF ~scanned.returned THEN Null
                      ELSE IF scanned.key = Null \/ Cardinality(scanned.modifiers) = 0 THEN Null
                      ELSE join(Append(orderedModifiers(scanned.modifiers), scanned.key))

\* The glyph replacements of formatShortcutForDisplay.
renderGlyphs(s) ==
    LET n1 == replaceAll(s,  ModifierName("Cmd"),   <<GlyphCmd>>)
        n2 == replaceAll(n1, ModifierName("Shift"), <<GlyphShift>>)
        n3 == replaceAll(n2, ModifierName("Alt"),   <<GlyphAlt>>)
        n4 == replaceAll(n3, ModifierName("Ctrl"),  <<GlyphCtrl>>)
    IN  replaceAll(n4, <<"+">>, <<>>)

\* formatShortcutForDisplay without the fallback "?? shortcut": the null of
\* a failed normalization is passed on.
formatShortcutForDisplayNoFallback(s) ==
    LET n == normalizeShortcutString(s)
    IN  IF n = Null THEN Null ELSE renderGlyphs(n)

\* formatShortcutForDisplay rendering the raw string, not the normalized one.
formatShortcutForDisplayRaw(s) == renderGlyphs(s)

formatShortcutForDisplay(s) ==
    LET n == normalizeShortcutString(s)
    IN  renderGlyphs(IF n = Null THEN s ELSE n)

----------------------------------------------------------------------------
(* Driving the codec: an input string is typed token by token, then        *)
(* normalized, formatted for display, and its canonical form normalized    *)
(* again.                                                                  *)

\* The tokens an input is built from: modifier aliases in several cases,
\* key spellings, a padded token, the empty token, an unknown token and a
\* name that is a property of Object.prototype.
RawTokens ==
    { <<"c","m","d">>,
      <<"C","o","m","m","a","n","d">>,
      <<"S","h","i","f","t">>,
      <<"o","p","t","i","o","n">>,
      <<"C","t","r","l">>,
      <<"3">>,
      <<"d","i","g","i","t","3">>,
      <<"K","e","y","A">>,
      <<"e","s","c">>,
      <<"-">>,
      <<" ","F","1","2"," ">>,
      <<>>,
      <<"f","1","3">>,
      <<"c","o","n","s","t","r","u","c","t","o","r">> }

CodecInit ==
    /\ shortcut = <<>>
    /\ cpc = "empty"
    /\ normalized = Unset
    /\ displayed = Unset
    /\ renormalized = Unset

\* One more token is typed, after a '+' unless it is the first.
TypeToken(t) ==
    /\ cpc \in {"empty", "typing"}
    /\ (cpc = "typing" => Len(split(shortcut)) < MaxTokens)
    /\ shortcut' = IF cpc = "empty" THEN t ELSE shortcut \o <<"+">> \o t
    /\ cpc' = "typing"
    /\ UNCHANGED <<normalized, displayed, renormalized>>
    /\ UNCHANGED <<stitchVars, windowVars>>

Normalize ==
    /\ cpc \in {"empty", "typing"}
    /\ normalized' = normalizeShortcutString(shortcut)
    /\ cpc' = "normalized"
    /\ UNCHANGED <<shortcut, displayed, renormalized>>
    /\ UNCHANGED <<stitchVars, windowVars>>

Format ==
    /\ cpc = "normalized"
    /\ displayed' = formatShortcutForDisplay(shortcut)
    /\ cpc' = "formatted"
    /\ UNCHANGED <<shortcut, normalized, renormalized>>
    /\ UNCHANGED <<stitchVars, windowVars>>

Renormalize ==
    /\ cpc = "formatted"
    /\ normalized # Null
    /\ renormalized' = normalizeShortcutString(normalized)
    /\ cpc' = "renormalized"
    /\ UNCHANGED <<shortcut, normalized, displayed>>
    /\ UNCHANGED <<stitchVars, windowVars>>

CodecNext ==
    \/ \E t \in RawTokens : TypeToken(t)
    \/ Normalize
    \/ Format
    \/ Renormalize

----------------------------------------------------------------------------
(* The stitch run: the "stitch-images" listener (src/unnamed/part_004) and *)
(* stitchImages (src/unnamed/part_006).                                    *)

DIVIDER_HEIGHT == 30
MAX_STITCH_IMAGES == 8

\* A selected file: whether the host can read it, whether the browser can
\* decode it, and its natural size once decoded.
Files ==
    { [readable |-> TRUE,  decodable |-> TRUE,  width |-> 100, height |-> 50],
      [readable |-> TRUE,  decodable |-> TRUE,  width |-> 200, height |-> 80],
      [readable |-> TRUE,  decodable |-> TRUE,  width |-> 151, height |-> 90],
      [readable |-> TRUE,  decodable |-> FALSE, width |-> 0,   height |-> 0],
      [readable |-> FALSE, decodable |-> FALSE, width |-> 0,   height |-> 0] }

\* The selections get_finder_selection can return: every length up to
\* MaxSelection, the files repeating a pattern of PatternLen files.
Selections ==
    { [i \in 1..n |-> pattern[((i - 1) % PatternLen) + 1]] :
        n \in 0..MaxSelection, pattern \in [1..PatternLen -> Files] }

NoResult == [base64Data |-> <<>>, width |-> -1, height |-> -1,
             maxSingleImageWidth |-> -1, maxSingleImageHeight |-> -1]
NoError == "none"

\* Math.max(...values)
RECURSIVE MathMax(_)
MathMax(values) ==
    IF Len(values) = 1 THEN values[1]
    ELSE LET rest == MathMax(Tail(values))
         IN  IF values[1] > rest THEN values[1] ELSE rest

\* images.reduce((sum, img) => sum + img.height, 0)
RECURSIVE reduceHeights(_, _)
reduceHeights(imgs, sum) ==
    IF imgs = <<>> THEN sum
    ELSE reduceHeights(Tail(imgs), sum + Head(imgs).height)

\* The total height with a divider counted after every image, the last too.
totalHeightDividerAfterEach(imgs) ==
    reduceHeights(imgs, 0) + Len(imgs) * DIVIDER_HEIGHT

\* totalHeight of stitchImages (part_006 lines 28-30).
totalHeight(imgs) ==
    reduceHeights(imgs, 0) + (Len(imgs) - 1) * DIVIDER_HEIGHT

BACKGROUND_COLOR == "#ffffff"
LINE_COLOR == "#333333"
\* const rectHeight = 12 (part_006 line 54)
rectHeight == 12

\* A slot of a Promise.all values array whose promise has not resolved yet.
Pending == [width |-> -1, height |-> -1]

\* loadImage(base64) resolved: the HTMLImageElement with its natural size.
decode(file) == [width |-> file.width, height |-> file.height]

\* The values array filled in the order in which the promises resolve.
settleInCompletionOrder(values, i, v) ==
    LET k == CHOOSE k \in 1..Len(values) :
                 /\ values[k] = [width |-> -1, height |-> -1]
                 /\ \A j \in 1..(k - 1) : values[j] # [width |-> -1, height |-> -1]
    IN  [values EXCEPT ![k] = v]

\* Promise.all keeps each resolved value at the index of its promise.
settle(values, i, v) == [values EXCEPT ![i] = v]

\* The canvas calls, in the order they are made.  Horizontal positions are
\* kept doubled (twiceX), since xOffset is a half-integer when maxWidth and
\* the image width differ by an odd number.
fillRect(fillStyle, x, y, w, h) ==
    [op |-> "fillRect", paint |-> fillStyle, twiceX |-> 2 * x, y |-> y,
     w |-> w, h |-> h]
drawImage(img, twiceX, y) ==
    [op |-> "drawImage", paint |-> "image", twiceX |-> twiceX, y |-> y,
     w |-> img.width, h |-> img.height]

\* The image drawn against the left edge.
twiceXOffsetLeftAligned(maxWidth, img) == 0

\* Twice xOffset = (maxWidth - img.width) / 2 (part_006 line 46).
twiceXOffset(maxWidth, img) == maxWidth - img.width

\* The divider with its bar drawn at the top of the band.
dividerBarOnTop(currentY, maxWidth) ==
    << [op |-> "fillRect", paint |-> "#ffffff", twiceX |-> 0, y |-> currentY,
        w |-> maxWidth, h |-> 30],
       [op |-> "fillRect", paint |-> "#333333", twiceX |-> 0, y |-> currentY,
        w |-> maxWidth, h |-> 12] >>

\* The divider below an image that is not the last (part_006 lines 51-57):
\* the band in the background colour, then the bar at rectY.
divider(currentY, maxWidth) ==
    LET rectY == currentY + (DIVIDER_HEIGHT \div 2) - (rectHeight \div 2)
    IN  << fillRect(BACKGROUND_COLOR, 0, currentY, maxWidth, DIVIDER_HEIGHT),
           fillRect(LINE_COLOR, 0, rectY, maxWidth, rectHeight) >>

\* The draw loop from index i on, with currentY as it stands (lines 43-61).
RECURSIVE drawLoop(_, _, _, _)
drawLoop(imgs, i, currentY, maxWidth) ==
    IF i > Len(imgs) THEN <<>>
    ELSE LET img == imgs[i]
             belowImage == currentY + img.height
         IN  <<drawImage(img, twiceXOffset(maxWidth, img), currentY)>> \o
             (IF i < Len(imgs)
              THEN divider(belowImage, maxWidth) \o
                   drawLoop(imgs, i + 1, belowImage + DIVIDER_HEIGHT, maxWidth)
              ELSE drawLoop(imgs, i + 1, belowImage, maxWidth))

\* stitchImages once every image is decoded (part_006 lines 25-72).  The
\* PNG of base64Data is represented by the canvas calls that painted it.
composeResult(imgs) ==
    LET maxWidth == MathMax([i \in 1..Len(imgs) |-> imgs[i].width])
    IN  [base64Data |->
             <<fillRect(BACKGROUND_COLOR, 0, 0, maxWidth, totalHeight(imgs))>> \o
             drawLoop(imgs, 1, 0, maxWidth),
         width |-> maxWidth,
         height |-> totalHeight(imgs),
         maxSingleImageWidth |-> maxWidth,
         maxSingleImageHeight |-> MathMax([i \in 1..Len(imgs) |-> imgs[i].height])]

\* The message the catch block derives from the caught value: a string (a
\* rejected host command) is used as is, an Error gives its message,
\* anything else (the event of img.onerror) gives "Stitch failed".
errorMessage(e) ==
    CASE e = "TooManyImages"   -> "Too many images (max 8)"
      [] e = "NoContext"       -> "Failed to get canvas 2D context"
      [] e = "ImageErrorEvent" -> "Stitch failed"
      [] OTHER                 -> e

\* errorMessage.includes("Too many images")
includesTooMany(message) == message = "Too many images (max 8)"

\* Entering the catch block with the caught value e (part_004 lines 178-185):
\* the alert is invoked for the too-many error, else the lock is cleared.
Catch(e, callsSoFar) ==
    /\ error' = e
    /\ IF includesTooMany(errorMessage(e))
       THEN /\ calls' = Append(callsSoFar, "show_alert")
            /\ spc' = "alerting"
       ELSE /\ calls' = Append(callsSoFar, "clear_stitch_lock")
            /\ spc' = "clearing"

StitchInit ==
    /\ spc = "idle"
    /\ paths = <<>>
    /\ fetched = {}
    /\ loaded = {}
    /\ images = <<>>
    /\ outOfOrder = {}
    /\ result = NoResult
    /\ error = NoError
    /\ calls = <<>>
    /\ runs = 0

\* The stitch-images event arrives: the listener asks for the selection.
StitchEvent ==
    /\ spc = "idle"
    /\ runs < MaxRuns
    /\ runs' = runs + 1
    /\ spc' = "selecting"
    /\ calls' = <<"get_finder_selection">>
    /\ paths' = <<>>
    /\ fetched' = {}
    /\ loaded' = {}
    /\ images' = <<>>
    /\ outOfOrder' = {}
    /\ result' = NoResult
    /\ error' = NoError
    /\ UNCHANGED <<codecVars, windowVars>>

\* The upper check letting one image more through.
tooManyImagesOffByOne(selection) == Len(selection) > MAX_STITCH_IMAGES + 1

\* paths.length > MAX_STITCH_IMAGES (part_004 line 161)
tooManyImages(selection) == Len(selection) > MAX_STITCH_IMAGES

\* The lower check letting a single image through.
tooFewImagesOffByOne(selection) == Len(selection) < 1

\* paths.length < 2 (part_004 line 156)
tooFewImages(selection) == Len(selection) < 2

\* The reads with the one of the first path left out.
readCallsSkippingFirst(imagePaths) ==
    [i \in 1..(Len(imagePaths) - 1) |-> "read_original_image_base64"]

\* imagePaths.map((path) => invoke("read_original_image_base64", ...)):
\* the host calls stitchImages makes itself (part_006 lines 16-18).
readCalls(imagePaths) ==
    [i \in 1..Len(imagePaths) |-> "read_original_image_base64"]

\* get_finder_selection resolves: the two length checks, then the listener
\* calls stitchImages, which issues one read_original_image_base64 per path.
SelectionResolved(selection) ==
    /\ spc = "selecting"
    /\ paths' = selection
    /\ IF tooFewImages(selection)
       THEN /\ calls' = Append(calls, "clear_stitch_lock")
            /\ spc' = "clearingShort"
            /\ UNCHANGED error
       ELSE IF tooManyImages(selection)
       THEN Catch("TooManyImages", calls)
       ELSE /\ calls' = Append(calls, "stitchImages") \o readCalls(selection)
            /\ spc' = "fetching"
            /\ UNCHANGED error
    /\ UNCHANGED <<fetched, loaded, images, outOfOrder, result, runs>>
    /\ UNCHANGED <<codecVars, windowVars>>

SelectionRejected ==
    /\ spc = "selecting"
    /\ Catch("get_finder_selection failed", calls)
    /\ UNCHANGED <<paths, fetched, loaded, images, outOfOrder, result, runs>>
    /\ UNCHANGED <<codecVars, windowVars>>

\* One read resolves; when it is the last, Promise.all resolves and a
\* loadImage is started for every source.
FetchResolved(i) ==
    /\ spc = "fetching"
    /\ i \in (1..Len(paths)) \ fetched
    /\ paths[i].readable
    /\ fetched' = fetched \cup {i}
    /\ outOfOrder' = IF \E j \in 1..(i - 1) : j \notin fetched
                     THEN outOfOrder \cup {"fetch"} ELSE outOfOrder
    /\ IF fetched' = 1..Len(paths)
       THEN /\ calls' = calls \o [k \in 1..Len(paths) |-> "loadImage"]
            /\ images' = [k \in 1..Len(paths) |-> Pending]
            /\ spc' = "decoding"
       ELSE UNCHANGED <<calls, images, spc>>
    /\ UNCHANGED <<paths, loaded, result, error, runs>>
    /\ UNCHANGED <<codecVars, windowVars>>

\* One read rejects: Promise.all rejects and stitchImages throws.
FetchRejected(i) ==
    /\ spc = "fetching"
    /\ i \in (1..Len(paths)) \ fetched
    /\ ~paths[i].readable
    /\ Catch("read_original_image_base64 failed", calls)
    /\ UNCHANGED <<paths, fetched, loaded, images, outOfOrder, result, runs>>
    /\ UNCHANGED <<codecVars, windowVars>>

\* One image fires onload; when it is the last, the composite is drawn and
\* returned and the listener invokes save_stitch_temp -- unless the canvas
\* gives no 2D context, which throws.
ImageLoaded(i, hasContext) ==
    /\ spc = "decoding"
    /\ i \in (1..Len(paths)) \ loaded
    /\ paths[i].decodable
    /\ loaded' = loaded \cup {i}
    /\ images' = settle(images, i, decode(paths[i]))
    /\ outOfOrder' = IF \E j \in 1..(i - 1) : j \notin loaded
                     THEN outOfOrder \cup {"decode"} ELSE outOfOrder
    /\ IF loaded' # 1..Len(paths)
       THEN UNCHANGED <<calls, spc, result, error>>
       ELSE IF hasContext
       THEN /\ result' = composeResult(images')
            /\ calls' = Append(calls, "save_stitch_temp")
            /\ spc' = "saving"
            /\ UNCHANGED error
       ELSE /\ Catch("NoContext", calls)
            /\ UNCHANGED result
    /\ UNCHANGED <<paths, fetched, runs>>
    /\ UNCHANGED <<codecVars, windowVars>>

\* An image that fires onerror is skipped and the rest is composed.
ImageFailedSkipped(i) ==
    /\ spc = "decoding"
    /\ i \in (1..Len(paths)) \ loaded
    /\ ~paths[i].decodable
    /\ loaded' = loaded \cup {i}
    /\ IF loaded' # 1..Len(paths)
       THEN UNCHANGED <<calls, spc, result>>
       ELSE /\ result' = composeResult(paths)
            /\ calls' = Append(calls, "save_stitch_temp")
            /\ spc' = "saving"
    /\ UNCHANGED <<paths, fetched, images, outOfOrder, error, runs>>
    /\ UNCHANGED <<codecVars, windowVars>>

\* One image fires onerror: loadImage rejects with the event.
ImageFailed(i) ==
    /\ spc = "decoding"
    /\ i \in (1..Len(paths)) \ loaded
    /\ ~paths[i].decodable
    /\ Catch("ImageErrorEvent", calls)
    /\ UNCHANGED <<paths, fetched, loaded, images, outOfOrder, result, runs>>
    /\ UNCHANGED <<codecVars, windowVars>>

SaveResolved ==
    /\ spc = "saving"
    /\ calls' = Append(calls, "open_rename_popup")
    /\ spc' = "opening"
    /\ UNCHANGED <<paths, fetched, loaded, images, outOfOrder, result, error, runs>>
    /\ UNCHANGED <<codecVars, windowVars>>

SaveRejected ==
    /\ spc = "saving"
    /\ Catch("save_stitch_temp failed", calls)
    /\ UNCHANGED <<paths, fetched, loaded, images, outOfOrder, result, runs>>
    /\ UNCHANGED <<codecVars, windowVars>>

\* open_rename_popup resolves: the listener returns.
PopupResolved ==
    /\ spc = "opening"
    /\ spc' = "idle"
    /\ UNCHANGED <<paths, fetched, loaded, images, outOfOrder, result, error, calls, runs>>
    /\ UNCHANGED <<codecVars, windowVars>>

PopupRejected ==
    /\ spc = "opening"
    /\ Catch("open_rename_popup failed", calls)
    /\ UNCHANGED <<paths, fetched, loaded, images, outOfOrder, result, runs>>
    /\ UNCHANGED <<codecVars, windowVars>>

\* show_alert resolves: the catch block goes on to clear the lock.
AlertResolved ==
    /\ spc = "alerting"
    /\ calls' = Append(calls, "clear_stitch_lock")
    /\ spc' = "clearing"
    /\ UNCHANGED <<paths, fetched, loaded, images, outOfOrder, result, error, runs>>
    /\ UNCHANGED <<codecVars, windowVars>>

\* show_alert rejects inside the catch block: the listener's promise rejects.
AlertRejected ==
    /\ spc = "alerting"
    /\ spc' = "idle"
    /\ UNCHANGED <<paths, fetched, loaded, images, outOfOrder, result, error, calls, runs>>
    /\ UNCHANGED <<codecVars, windowVars>>

\* clear_stitch_lock of the catch block settles: the listener ends.
ClearSettled ==
    /\ spc = "clearing"
    /\ spc' = "idle"
    /\ UNCHANGED <<paths, fetched, loaded, images, outOfOrder, result, error, calls, runs>>
    /\ UNCHANGED <<codecVars, windowVars>>

\* clear_stitch_lock of the fewer-than-2 path resolves: the listener returns.
ClearShortResolved ==
    /\ spc = "clearingShort"
    /\ spc' = "idle"
    /\ UNCHANGED <<paths, fetched, loaded, images, outOfOrder, result, error, calls, runs>>
    /\ UNCHANGED <<codecVars, windowVars>>

\* clear_stitch_lock of the fewer-than-2 path rejects inside the try block.
ClearShortRejected ==
    /\ spc = "clearingShort"
    /\ Catch("clear_stitch_lock failed", calls)
    /\ UNCHANGED <<paths, fetched, loaded, images, outOfOrder, result, runs>>
    /\ UNCHANGED <<codecVars, windowVars>>

StitchNext ==
    \/ StitchEvent
    \/ \E selection \in Selections : SelectionResolved(selection)
    \/ SelectionRejected
    \/ \E i \in 1..MaxSelection : FetchResolved(i)
    \/ \E i \in 1..MaxSelection : FetchRejected(i)
    \/ \E i \in 1..MaxSelection, hasContext \in BOOLEAN : ImageLoaded(i, hasContext)
    \/ \E i \in 1..MaxSelection : ImageFailed(i)
    \/ SaveResolved
    \/ SaveRejected
    \/ PopupResolved
    \/ PopupRejected
    \/ AlertResolved
    \/ AlertRejected
    \/ ClearSettled
    \/ ClearShortResolved
    \/ ClearShortRejected

----------------------------------------------------------------------------
(* The settings window: App of src/unnamed/part_004.                       *)

\* The characters of the default shortcuts.
CmdShift3 == <<"C","m","d","+","S","h","i","f","t","+","3">>
CmdShift4 == <<"C","m","d","+","S","h","i","f","t","+","4">>
CmdShift2 == <<"C","m","d","+","S","h","i","f","t","+","2">>

\* A block of a filename template; value is used by the prefix block only.
Block(id, enabled, value) == [id |-> id, enabled |-> enabled, value |-> value]

DEFAULT_FILENAME_TEMPLATE ==
    [blocks |-> << Block("prefix", TRUE, "llm-scr"),
                   Block("date", TRUE, ""),
                   Block("time", TRUE, ""),
                   Block("quality", TRUE, ""),
                   Block("dimensions", TRUE, ""),
                   Block("counter", FALSE, "") >>,
     useCounter |-> FALSE]

\* useState<Settings>({...}) (part_004 lines 60-69)
InitialSettings ==
    [quality |-> 70, maxWidth |-> 1024, notePrefixEnabled |-> FALSE,
     notePrefix |-> "", filenameTemplate |-> DEFAULT_FILENAME_TEMPLATE,
     fullscreenShortcut |-> CmdShift3, areaShortcut |-> CmdShift4,
     stitchShortcut |-> CmdShift2]

\* useState<Settings | null>(null): nothing loaded or saved yet.
NotLoaded == [InitialSettings EXCEPT !.quality = -1]

NoShortcutError == "null"

\* The templates the settings file may hold when the window is mounted:
\* the default one, one naming files by the counter, one with both.
StoredTemplates ==
    { DEFAULT_FILENAME_TEMPLATE,
      [blocks |-> << Block("prefix", FALSE, ""),
                     Block("counter", TRUE, ""),
                     Block("date", TRUE, ""),
                     Block("time", FALSE, ""),
                     Block("quality", FALSE, ""),
                     Block("dimensions", TRUE, "") >>,
       useCounter |-> TRUE],
      [blocks |-> << Block("time", TRUE, ""),
                     Block("counter", TRUE, ""),
                     Block("prefix", TRUE, "shot"),
                     Block("date", FALSE, ""),
                     Block("quality", TRUE, ""),
                     Block("dimensions", FALSE, "") >>,
       useCounter |-> TRUE] }

\* The texts typed into the prefix input.
PrefixValues == {"", "shot"}

\* get_settings resolves on mount (part_004 lines 78-83): the settings the
\* host holds, with the template of the settings file, become the settings
\* and the last saved settings; they are what save_settings persisted last.
LoadSettings(template) ==
    /\ lastSavedSettings = NotLoaded
    /\ hostSettings' = [hostSettings EXCEPT !.filenameTemplate = template]
    /\ settings' = hostSettings'
    /\ lastSavedSettings' = hostSettings'
    /\ blocks' = template.blocks
    /\ persisted' = hostSettings'
    /\ UNCHANGED <<saveStatus, saveStatusTimeoutRef, shortcutError, popup,
                   updates, registered, configs, moves, showFilenameTemplate,
                   saves>>
    /\ UNCHANGED <<codecVars, stitchVars>>

\* updateSettings(newSettings) (part_004 lines 86-93)
updateSettings(newSettings) ==
    /\ settings' = newSettings
    /\ saveStatus' = "dirty"
    /\ saveStatusTimeoutRef' = FALSE

\* The values the quality slider is dragged to.
QualityValues == {70, 85}

\* The quality slider of the main view is moved (part_004 lines 310-318).
EditQuality(q) ==
    /\ ~showFilenameTemplate
    /\ updateSettings([settings EXCEPT !.quality = q])
    /\ UNCHANGED <<lastSavedSettings, shortcutError, blocks, popup, updates,
                   hostSettings, registered, configs, moves,
                   showFilenameTemplate, saves, persisted>>
    /\ UNCHANGED <<codecVars, stitchVars>>

\* "Change Filename Template" is clicked (part_004 line 356); the editor
\* mounts with the template.blocks of the settings.
OpenTemplateView ==
    /\ ~showFilenameTemplate
    /\ showFilenameTemplate' = TRUE
    /\ blocks' = settings.filenameTemplate.blocks
    /\ UNCHANGED <<settings, lastSavedSettings, saveStatus, saveStatusTimeoutRef,
                   shortcutError, popup, updates, hostSettings, registered,
                   configs, moves, saves, persisted>>
    /\ UNCHANGED <<codecVars, stitchVars>>

\* saveSettings up to its await (part_004 lines 95-98), from the Save
\* button of either view: the call carries the settings of this render.
saveSettings ==
    /\ Len(saves) < MaxSaves
    /\ saveStatus' = "saving"
    /\ saves' = Append(saves, settings)
    /\ UNCHANGED <<settings, lastSavedSettings, saveStatusTimeoutRef,
                   shortcutError, blocks, popup, updates, hostSettings,
                   registered, configs, moves, showFilenameTemplate, persisted>>
    /\ UNCHANGED <<codecVars, stitchVars>>

\* The settings state after Back with the edits kept.
restoredKeepingEdits(current, lastSaved) == current

\* if (lastSavedSettings) setSettings(lastSavedSettings) (lines 240-242)
restored(current, lastSaved) ==
    IF lastSaved # NotLoaded THEN lastSaved ELSE current

\* The calls in flight once the k-th has settled.
settled(calls_, k) == SubSeq(calls_, 1, k - 1) \o SubSeq(calls_, k + 1, Len(calls_))

\* The k-th save_settings call in flight resolves (lines 98-107): the host has
\* persisted the settings of the call; the status becomes "saved", the
\* settings of the call the last saved ones, and the 1500 ms timer is
\* started in place of a pending one.
SaveSettingsResolved(k) ==
    /\ k \in 1..Len(saves)
    /\ persisted' = saves[k]
    /\ saveStatus' = "saved"
    /\ lastSavedSettings' = saves[k]
    /\ saveStatusTimeoutRef' = TRUE
    /\ saves' = settled(saves, k)
    /\ UNCHANGED <<settings, shortcutError, blocks, popup, updates,
                   hostSettings, registered, configs, moves,
                   showFilenameTemplate>>
    /\ UNCHANGED <<codecVars, stitchVars>>

\* The k-th save_settings call in flight rejects: the catch block (lines 108-111).
SaveSettingsRejected(k) ==
    /\ k \in 1..Len(saves)
    /\ saveStatus' = "error"
    /\ saves' = settled(saves, k)
    /\ UNCHANGED <<settings, lastSavedSettings, saveStatusTimeoutRef,
                   shortcutError, blocks, popup, updates, hostSettings,
                   registered, configs, moves, showFilenameTemplate, persisted>>
    /\ UNCHANGED <<codecVars, stitchVars>>

\* The callback of the 1500 ms timer (lines 104-107).
StatusTimerExpired ==
    /\ saveStatusTimeoutRef
    /\ saveStatus' = "idle"
    /\ saveStatusTimeoutRef' = FALSE
    /\ UNCHANGED <<settings, lastSavedSettings, shortcutError, blocks, popup,
                   updates, hostSettings, registered, configs, moves,
                   showFilenameTemplate, saves, persisted>>
    /\ UNCHANGED <<codecVars, stitchVars>>

\* handleTemplateBack (part_004 lines 239-249), Back of the template view.
handleTemplateBack ==
    /\ showFilenameTemplate
    /\ settings' = restored(settings, lastSavedSettings)
    /\ blocks' = settings'.filenameTemplate.blocks
    /\ saveStatus' = "idle"
    /\ saveStatusTimeoutRef' = FALSE
    /\ showFilenameTemplate' = FALSE
    /\ UNCHANGED <<lastSavedSettings, shortcutError, popup, updates,
                   hostSettings, registered, configs, moves, saves, persisted>>
    /\ UNCHANGED <<codecVars, stitchVars>>

\* The settings panel: its two views, Save, the timer and Back.
PanelNext ==
    \/ \E q \in QualityValues : EditQuality(q)
    \/ OpenTemplateView
    \/ saveSettings
    \/ \E k \in 1..MaxSaves : SaveSettingsResolved(k)
    \/ \E k \in 1..MaxSaves : SaveSettingsRejected(k)
    \/ StatusTimerExpired
    \/ handleTemplateBack

----------------------------------------------------------------------------
(* The filename-template editor: src/src/FilenameTemplate.tsx              *)

\* blocks.find((x) => x.id === id)?.enabled, undefined read as false.
findEnabled(bs, id) == \E i \in 1..Len(bs) : bs[i].id = id /\ bs[i].enabled

otherOf(id) == IF id = "time" THEN "counter" ELSE "time"

\* The map of handleToggle flipping the block whatever the other one is.
toggleMapUnguarded(bs, id) ==
    [i \in 1..Len(bs) |->
        IF bs[i].id # id THEN bs[i]
        ELSE [bs[i] EXCEPT !.enabled = ~bs[i].enabled]]

\* The map of handleToggle enabling a block and never disabling one.
toggleMapNeverDisables(bs, id) ==
    [i \in 1..Len(bs) |->
        IF bs[i].id # id THEN bs[i]
        ELSE [bs[i] EXCEPT !.enabled = TRUE]]

\* The map of handleToggle (lines 71-82): the block is flipped, unless that
\* disables Time or Counter while the other of the two is not enabled.
toggleMap(bs, id) ==
    [i \in 1..Len(bs) |->
        IF bs[i].id # id THEN bs[i]
        ELSE LET newEnabled == ~bs[i].enabled
             IN  IF /\ ~newEnabled
                    /\ id \in {"time", "counter"}
                    /\ ~findEnabled(bs, otherOf(id))
                 THEN bs[i]
                 ELSE [bs[i] EXCEPT !.enabled = newEnabled]]

\* The second half of handleToggle (lines 84-93): with neither Time nor
\* Counter enabled after the map, the other of the two is enabled.
enableOther(newBlocks, id) ==
    IF /\ id \in {"time", "counter"}
       /\ ~findEnabled(newBlocks, "time")
       /\ ~findEnabled(newBlocks, "counter")
       /\ \E i \in 1..Len(newBlocks) : newBlocks[i].id = otherOf(id)
    THEN LET otherIdx == CHOOSE i \in 1..Len(newBlocks) :
                             /\ newBlocks[i].id = otherOf(id)
                             /\ \A j \in 1..(i - 1) : newBlocks[j].id # otherOf(id)
         IN  [newBlocks EXCEPT ![otherIdx].enabled = TRUE]
    ELSE newBlocks

\* updateBlocks(newBlocks) (lines 65-68): the editor state and, through
\* onTemplateChange, the template of the settings.
updateBlocks(newBlocks) ==
    /\ blocks' = newBlocks
    /\ updateSettings([settings EXCEPT !.filenameTemplate.blocks = newBlocks])

handleToggle(id) ==
    /\ showFilenameTemplate
    /\ \E i \in 1..Len(blocks) : blocks[i].id = id
    /\ updateBlocks(enableOther(toggleMap(blocks, id), id))
    /\ UNCHANGED <<lastSavedSettings, shortcutError, popup, updates,
                   hostSettings, registered, configs, moves>>
    /\ UNCHANGED <<codecVars, stitchVars, panelVars>>

handlePrefixChange(value) ==
    /\ showFilenameTemplate
    /\ updateBlocks([i \in 1..Len(blocks) |->
                        IF blocks[i].id = "prefix"
                        THEN [blocks[i] EXCEPT !.value = value]
                        ELSE blocks[i]])
    /\ UNCHANGED <<lastSavedSettings, shortcutError, popup, updates,
                   hostSettings, registered, configs, moves>>
    /\ UNCHANGED <<codecVars, stitchVars, panelVars>>

\* The swap writing one of the two places only.
swapBlocksOneWay(bs, index, newIndex) == [bs EXCEPT ![index] = bs[newIndex]]

\* [newBlocks[index], newBlocks[newIndex]] = [newBlocks[newIndex], newBlocks[index]]
swapBlocks(bs, index, newIndex) ==
    [bs EXCEPT ![index] = bs[newIndex], ![newIndex] = bs[index]]

\* moveBlock(index, direction) (lines 103-109), index counted from 1; a
\* move past either end returns before updateBlocks.
moveBlock(index, direction) ==
    /\ showFilenameTemplate
    /\ moves < MaxMoves
    /\ moves' = moves + 1
    /\ index \in 1..Len(blocks)
    /\ LET newIndex == IF direction = "up" THEN index - 1 ELSE index + 1
       IN  IF newIndex < 1 \/ newIndex > Len(blocks)
           THEN UNCHANGED <<blocks, settings, saveStatus, saveStatusTimeoutRef>>
           ELSE updateBlocks(swapBlocks(blocks, index, newIndex))
    /\ UNCHANGED <<lastSavedSettings, shortcutError, popup, updates,
                   hostSettings, registered, configs>>
    /\ UNCHANGED <<codecVars, stitchVars, panelVars>>

\* Reset of the template view (part_004 lines 281-286); the editor takes
\* the new template.blocks over in its effect.
ResetTemplate ==
    /\ showFilenameTemplate
    /\ updateSettings([settings EXCEPT !.filenameTemplate = DEFAULT_FILENAME_TEMPLATE])
    /\ blocks' = DEFAULT_FILENAME_TEMPLATE.blocks
    /\ UNCHANGED <<lastSavedSettings, shortcutError, popup, updates,
                   hostSettings, registered, configs, moves>>
    /\ UNCHANGED <<codecVars, stitchVars, panelVars>>

BlockIds == {"prefix", "date", "time", "quality", "dimensions", "counter"}

TemplateNext ==
    \/ \E template \in StoredTemplates : LoadSettings(template)
    \/ OpenTemplateView
    \/ \E id \in BlockIds : handleToggle(id)
    \/ \E value \in PrefixValues : handlePrefixChange(value)
    \/ \E index \in 1..6, direction \in {"up", "down"} : moveBlock(index, direction)
    \/ ResetTemplate

----------------------------------------------------------------------------
(* The host's update_shortcuts command: src/unnamed/part_002, Step 2 and   *)
(* Step 5.                                                                 *)

\* A parsed Shortcut; err is "" when the parse succeeded.
ParsedShortcut(mods, key) == [err |-> "", mods |-> mods, key |-> key]
ParseError(message) == [err |-> message, mods |-> {}, key |-> <<>>]

NamedCodes ==
    { <<"s","p","a","c","e">>, <<"e","n","t","e","r">>, <<"t","a","b">>,
      <<"e","s","c","a","p","e">>, <<"e","s","c">>,
      <<"b","a","c","k","s","p","a","c","e">> }

\* string_to_code(s): the Code named by s lower-cased, or <<>> for the
\* "Unknown key" error.  A Code is written as its name.
string_to_code(s) ==
    LET lower == toLowerCase(s)
    IN  IF IsDigitString(lower) THEN <<"D","i","g","i","t">> \o lower
        ELSE IF Len(lower) = 6 /\ StartsWith(lower, 1, <<"d","i","g","i","t">>)
                /\ lower[6] \in DigitChars
        THEN <<"D","i","g","i","t", lower[6]>>
        ELSE IF Len(lower) = 1 /\ IsLowerLetter(lower[1])
        THEN <<"K","e","y", toUpperCaseChar(lower[1])>>
        ELSE IF Len(lower) = 4 /\ StartsWith(lower, 1, <<"k","e","y">>)
                /\ IsLowerLetter(lower[4])
        THEN <<"K","e","y", toUpperCaseChar(lower[4])>>
        ELSE IF IsFunctionKey(lower) THEN toUpperCase(lower)
        ELSE IF lower = <<"e","s","c">> THEN <<"E","s","c","a","p","e">>
        ELSE IF lower \in NamedCodes
        THEN <<toUpperCaseChar(lower[1])>> \o Tail(lower)
        ELSE <<>>

\* The modifier a part of a shortcut string names for the host, or "none".
hostModifier(part) ==
    LET lower == toLowerCase(part)
    IN  IF lower \in {<<"c","m","d">>, <<"s","u","p","e","r">>, <<"m","e","t","a">>}
        THEN "SUPER"
        ELSE IF lower = <<"s","h","i","f","t">> THEN "SHIFT"
        ELSE IF lower \in {<<"a","l","t">>, <<"o","p","t","i","o","n">>} THEN "ALT"
        ELSE IF lower \in {<<"c","t","r","l">>, <<"c","o","n","t","r","o","l">>}
        THEN "CONTROL"
        ELSE "none"

\* The loop of parse_shortcut from part i on: a part that is no modifier is
\* the key, a later one replacing an earlier one; an unknown key returns.
RECURSIVE parseParts(_, _, _, _)
parseParts(parts, i, modifiers, key_code) ==
    IF i > Len(parts)
    THEN IF key_code = <<>> THEN ParseError("No key specified in shortcut")
         ELSE IF modifiers = {} THEN ParseError("At least one modifier required")
         ELSE ParsedShortcut(modifiers, key_code)
    ELSE IF hostModifier(parts[i]) # "none"
    THEN parseParts(parts, i + 1, modifiers \cup {hostModifier(parts[i])}, key_code)
    ELSE IF string_to_code(parts[i]) = <<>> THEN ParseError("Unknown key")
    ELSE parseParts(parts, i + 1, modifiers, string_to_code(parts[i]))

parse_shortcut(shortcut_str) ==
    LET parts == split(shortcut_str)
    IN  IF Len(parts) < 2
        THEN ParseError("Shortcut must have at least one modifier and one key")
        ELSE parseParts(parts, 1, {}, <<>>)

\* parse_shortcut(...).ok() as a set: the shortcut, or nothing.
okSet(parsed) == IF parsed.err = "" THEN {parsed} ELSE {}

\* global_shortcut.register(s) fails when s is registered already.
registerFails(s, reg) == s \in reg

\* update_shortcuts (part_002 lines 274-346) run on the host's settings and
\* registrations: the result ("ok" or the error string) and what it leaves.
\* persistOk tells whether save_settings_to_file succeeds.
update_shortcuts(host, reg, fullscreen_shortcut, area_shortcut, persistOk) ==
    LET new_full == parse_shortcut(fullscreen_shortcut)
        new_area == parse_shortcut(area_shortcut)
        olds     == okSet(parse_shortcut(host.fullscreenShortcut)) \cup
                    okSet(parse_shortcut(host.areaShortcut))
        unregistered == reg \ olds
        withFull == unregistered \cup {new_full}
        unchanged(message) ==
            [result |-> message, settings |-> host, registered |-> reg]
    IN  IF fullscreen_shortcut = area_shortcut
        THEN unchanged("Fullscreen and area shortcuts must be different")
        ELSE IF new_full.err # "" THEN unchanged(new_full.err)
        ELSE IF new_area.err # "" THEN unchanged(new_area.err)
        ELSE IF registerFails(new_full, unregistered)
        THEN [result |-> "Failed to register fullscreen shortcut",
              settings |-> host,
              registered |-> unregistered \cup olds]
        ELSE IF registerFails(new_area, withFull)
        THEN [result |-> "Failed to register area shortcut",
              settings |-> host,
              registered |-> (withFull \ {new_full}) \cup olds]
        ELSE [result |-> IF persistOk THEN "ok" ELSE "Failed to save settings",
              settings |-> [host EXCEPT !.fullscreenShortcut = fullscreen_shortcut,
                                        !.areaShortcut = area_shortcut],
              registered |-> withFull \cup {new_area}]

\* The shortcuts run() registers at start (part_002 lines 219-224 and 240):
\* the two of the settings and the fixed one that focuses the rename window.
InitiallyRegistered ==
    { parse_shortcut(CmdShift3), parse_shortcut(CmdShift4),
      ParsedShortcut({"SUPER", "SHIFT"}, <<"K","e","y","F">>) }

----------------------------------------------------------------------------
(* The shortcut recorder popup (src/unnamed/part_002, Step 9), opened from *)
(* the settings window, and the shortcut-configured listener of the        *)
(* settings window (part_004 lines 195-229).                               *)

ClosedPopup ==
    [open |-> FALSE, target |-> "none", otherShortcut |-> <<>>,
     recordedShortcut |-> <<>>, display |-> <<".", ".", ".">>,
     errorMsg |-> "", saveDisabled |-> TRUE]

\* The key events pressed in the popup: two modifier states over four keys,
\* a key without modifier, a modifier key alone, and Escape.
KeyEvent(meta, ctrl, alt, shift, key, code) ==
    [metaKey |-> meta, ctrlKey |-> ctrl, altKey |-> alt, shiftKey |-> shift,
     key |-> key, code |-> code]
RecordedCodes ==
    { <<"D","i","g","i","t","3">>, <<"D","i","g","i","t","4">>,
      <<"K","e","y","F">>, <<"M","i","n","u","s">> }
KeyEvents ==
    { KeyEvent(TRUE, FALSE, FALSE, TRUE, "other", code) : code \in RecordedCodes }
    \cup
    { KeyEvent(FALSE, TRUE, FALSE, TRUE, "other", code) : code \in RecordedCodes }
    \cup
    { KeyEvent(FALSE, FALSE, FALSE, FALSE, "other", <<"K","e","y","F">>),
      KeyEvent(FALSE, FALSE, FALSE, TRUE, "Shift", <<"S","h","i","f","t","L","e","f","t">>),
      KeyEvent(FALSE, FALSE, FALSE, FALSE, "Escape", <<"E","s","c","a","p","e">>) }

\* keyEventToShortcut(e) (part_002 lines 518-534), Null standing for null.
keyEventToShortcut(e) ==
    LET parts == (IF e.metaKey  THEN <<ModifierName("Cmd")>>   ELSE <<>>) \o
                 (IF e.ctrlKey  THEN <<ModifierName("Ctrl")>>  ELSE <<>>) \o
                 (IF e.altKey   THEN <<ModifierName("Alt")>>   ELSE <<>>) \o
                 (IF e.shiftKey THEN <<ModifierName("Shift")>> ELSE <<>>)
        key == IF StartsWith(e.code, 1, <<"D","i","g","i","t">>)
               THEN SubSeq(e.code, 6, Len(e.code))
               ELSE IF StartsWith(e.code, 1, <<"K","e","y">>)
               THEN SubSeq(e.code, 4, Len(e.code))
               ELSE e.code
    IN  IF e.key \in {"Meta", "Control", "Alt", "Shift"} THEN Null
        ELSE join(Append(parts, key))

\* shortcut === otherShortcut (part_002 line 548)
isDuplicate(recorded, otherShortcut) == recorded = otherShortcut

\* A shortcut box of the settings window is clicked (src/src/App.tsx lines
\* 346-395): the error is cleared and the popup is opened for the target
\* with the other shortcut as the settings hold it now.
OpenShortcutConfig(target) ==
    /\ ~showFilenameTemplate
    /\ ~popup.open
    /\ configs < MaxConfigs
    /\ configs' = configs + 1
    /\ shortcutError' = NoShortcutError
    /\ popup' = [ClosedPopup EXCEPT
                    !.open = TRUE,
                    !.target = target,
                    !.otherShortcut = IF target = "fullscreen"
                                      THEN settings.areaShortcut
                                      ELSE settings.fullscreenShortcut]
    /\ UNCHANGED <<settings, lastSavedSettings, saveStatus, saveStatusTimeoutRef,
                   blocks, updates, hostSettings, registered, moves>>
    /\ UNCHANGED <<codecVars, stitchVars, panelVars>>

\* A key goes down in the popup: the recorder's listener (lines 536-556),
\* then the one that closes the popup on Escape (lines 571-575).
Keydown(e) ==
    /\ popup.open
    /\ LET pressed == keyEventToShortcut(e)
           recorded ==
               IF pressed = Null THEN popup
               ELSE [popup EXCEPT
                        !.recordedShortcut = pressed,
                        !.display = renderGlyphs(pressed),
                        !.errorMsg = IF isDuplicate(pressed, popup.otherShortcut)
                                     THEN "This shortcut is already used" ELSE "",
                        !.saveDisabled = isDuplicate(pressed, popup.otherShortcut)]
       IN  popup' = IF e.key = "Escape" THEN ClosedPopup ELSE recorded
    /\ UNCHANGED <<settings, lastSavedSettings, saveStatus, saveStatusTimeoutRef,
                   shortcutError, blocks, updates, hostSettings, registered,
                   configs, moves>>
    /\ UNCHANGED <<codecVars, stitchVars, panelVars>>

\* The settings the listener sends for an event (part_004 lines 199-208).
newSettingsFor(target, recorded) ==
    IF target = "fullscreen" THEN [settings EXCEPT !.fullscreenShortcut = recorded]
    ELSE IF target = "area" THEN [settings EXCEPT !.areaShortcut = recorded]
    ELSE IF target = "stitch" THEN [settings EXCEPT !.stitchShortcut = recorded]
    ELSE settings

\* Save is clicked while enabled (part_002 lines 558-564): the event is
\* emitted and the popup closed; the listener of the settings window copies
\* the settings, sets the target's field and invokes update_shortcuts.
\* inFlight records the earlier calls that have not settled yet.
SaveClick ==
    /\ popup.open
    /\ popup.recordedShortcut # <<>>
    /\ ~popup.saveDisabled
    /\ updates' = Append(updates,
                         [target |-> popup.target,
                          recorded |-> popup.recordedShortcut,
                          newSettings |-> newSettingsFor(popup.target,
                                                         popup.recordedShortcut),
                          inFlight |-> {j \in 1..Len(updates) :
                                           updates[j].stage # "done"},
                          stage |-> "sent", message |-> ""])
    /\ popup' = ClosedPopup
    /\ UNCHANGED <<settings, lastSavedSettings, saveStatus, saveStatusTimeoutRef,
                   shortcutError, blocks, hostSettings, registered, configs, moves>>
    /\ UNCHANGED <<codecVars, stitchVars, panelVars>>

CancelClick ==
    /\ popup.open
    /\ popup' = ClosedPopup
    /\ UNCHANGED <<settings, lastSavedSettings, saveStatus, saveStatusTimeoutRef,
                   shortcutError, blocks, updates, hostSettings, registered,
                   configs, moves>>
    /\ UNCHANGED <<codecVars, stitchVars, panelVars>>

\* The host runs the k-th update_shortcuts call.
HostUpdateShortcuts(k, persistOk) ==
    /\ k \in 1..Len(updates)
    /\ updates[k].stage = "sent"
    /\ LET out == update_shortcuts(hostSettings, registered,
                                   updates[k].newSettings.fullscreenShortcut,
                                   updates[k].newSettings.areaShortcut, persistOk)
       IN  /\ hostSettings' = out.settings
           /\ registered' = out.registered
           /\ updates' = [updates EXCEPT
                             ![k].stage = IF out.result = "ok" THEN "ok" ELSE "err",
                             ![k].message = IF out.result = "ok" THEN "" ELSE out.result]
    /\ UNCHANGED <<settings, lastSavedSettings, saveStatus, saveStatusTimeoutRef,
                   shortcutError, blocks, popup, configs, moves>>
    /\ UNCHANGED <<codecVars, stitchVars, panelVars>>

\* The k-th call resolves: the listener stores the settings it sent, and
\* the template editor takes their template.blocks over in its effect.
UpdateResolved(k) ==
    /\ k \in 1..Len(updates)
    /\ updates[k].stage = "ok"
    /\ settings' = updates[k].newSettings
    /\ blocks' = settings'.filenameTemplate.blocks
    /\ shortcutError' = NoShortcutError
    /\ updates' = [updates EXCEPT ![k].stage = "done"]
    /\ UNCHANGED <<lastSavedSettings, saveStatus, saveStatusTimeoutRef,
                   popup, hostSettings, registered, configs, moves>>
    /\ UNCHANGED <<codecVars, stitchVars, panelVars>>

\* The catch block storing the settings it sent along with the message.
UpdateRejectedSettingsStored(k) ==
    /\ k \in 1..Len(updates)
    /\ updates[k].stage = "err"
    /\ settings' = updates[k].newSettings
    /\ blocks' = settings'.filenameTemplate.blocks
    /\ shortcutError' = updates[k].message
    /\ updates' = [updates EXCEPT ![k].stage = "done"]
    /\ UNCHANGED <<lastSavedSettings, saveStatus, saveStatusTimeoutRef,
                   popup, hostSettings, registered, configs, moves>>
    /\ UNCHANGED <<codecVars, stitchVars, panelVars>>

\* The k-th call rejects with the host's error string: the catch block
\* stores it as the shortcut error (part_004 lines 216-220).
UpdateRejected(k) ==
    /\ k \in 1..Len(updates)
    /\ updates[k].stage = "err"
    /\ shortcutError' = updates[k].message
    /\ updates' = [updates EXCEPT ![k].stage = "done"]
    /\ UNCHANGED <<settings, lastSavedSettings, saveStatus, saveStatusTimeoutRef,
                   blocks, popup, hostSettings, registered, configs, moves>>
    /\ UNCHANGED <<codecVars, stitchVars, panelVars>>

ConfigNext ==
    \/ \E target \in {"fullscreen", "area"} : OpenShortcutConfig(target)
    \/ \E e \in KeyEvents : Keydown(e)
    \/ SaveClick
    \/ CancelClick
    \/ \E k \in 1..MaxConfigs, persistOk \in BOOLEAN : HostUpdateShortcuts(k, persistOk)
    \/ \E k \in 1..MaxConfigs : UpdateResolved(k)
    \/ \E k \in 1..MaxConfigs : UpdateRejected(k)

WindowInit ==
    /\ settings = InitialSettings
    /\ lastSavedSettings = NotLoaded
    /\ saveStatus = "idle"
    /\ saveStatusTimeoutRef = FALSE
    /\ shortcutError = NoShortcutError
    /\ blocks = DEFAULT_FILENAME_TEMPLATE.blocks
    /\ popup = ClosedPopup
    /\ updates = <<>>
    /\ hostSettings = InitialSettings
    /\ registered = InitiallyRegistered
    /\ configs = 0
    /\ moves = 0
    /\ showFilenameTemplate = FALSE
    /\ saves = <<>>
    /\ persisted = NotLoaded

----------------------------------------------------------------------------
(* Specifications.                                                         *)

Init == CodecInit /\ StitchInit /\ WindowInit

\* The codec alone: the stitch run stays idle.
SpecCodec == Init /\ [][CodecNext]_vars

\* The stitch run alone: the codec is left untouched.
SpecStitch == Init /\ [][StitchNext]_vars

\* The shortcut recorder popup, the listener and the host alone.
SpecConfig == Init /\ [][ConfigNext]_vars

\* The filename-template editor alone.
SpecTemplate == Init /\ [][TemplateNext]_vars

\* The settings panel with the load on mount and the Reset of the template
\* view as the edit made there.
SettingsNext ==
    \/ \E template \in StoredTemplates : LoadSettings(template)
    \/ ResetTemplate
    \/ PanelNext

SpecSettings == Init /\ [][SettingsNext]_vars

\* The chords pressed in the popup when it runs beside the settings panel:
\* Ctrl+Shift+3, which the host accepts, and Cmd+Shift+F, which it cannot
\* register.
WindowKeyEvents ==
    { KeyEvent(FALSE, TRUE, FALSE, TRUE, "other", <<"D","i","g","i","t","3">>),
      KeyEvent(TRUE, FALSE, FALSE, TRUE, "other", <<"K","e","y","F">>) }

\* The shortcut recorder popup, the listener and the host together with
\* the views of the settings panel, Save and Back.
WindowNext ==
    \/ \E target \in {"fullscreen", "area"} : OpenShortcutConfig(target)
    \/ \E e \in WindowKeyEvents : Keydown(e)
    \/ SaveClick
    \/ \E k \in 1..MaxConfigs : HostUpdateShortcuts(k, TRUE)
    \/ \E k \in 1..MaxConfigs : UpdateResolved(k)
    \/ \E k \in 1..MaxConfigs : UpdateRejected(k)
    \/ OpenTemplateView
    \/ handleTemplateBack
    \/ saveSettings
    \/ \E k \in 1..MaxSaves : SaveSettingsResolved(k)

SpecWindow == Init /\ [][WindowNext]_vars

Next == CodecNext \/ StitchNext \/ ConfigNext \/ TemplateNext \/ PanelNext

Spec == Init /\ [][Next]_vars

----------------------------------------------------------------------------
(* The vocabulary of the shortcut grammar, stated as tables: what a token  *)
(* denotes and what the canonical string of a shortcut is.                 *)

PunctuationKeys ==
    { <<"-">>, <<"=">>, <<"[">>, <<"]">>, <<";">>, <<"'">>, <<",">>, <<".">>,
      <<"/">>, <<Backslash>>, <<Backquote>> }

FunctionKeys ==
    { <<"F", d>> : d \in DigitChars \ {"0"} } \cup { <<"F", "1", d>> : d \in {"0", "1", "2"} }

ControlKeys ==
    { <<"S","p","a","c","e">>, <<"E","n","t","e","r">>, <<"T","a","b">>,
      <<"E","s","c","a","p","e">>, <<"B","a","c","k","s","p","a","c","e">> }

\* The closed key vocabulary: A-Z, 0-9, F1-F12, punctuation, control keys.
KeyVocabulary ==
    { <<UpperAlpha[i]>> : i \in 1..26 } \cup { <<d>> : d \in DigitChars }
        \cup FunctionKeys \cup PunctuationKeys \cup ControlKeys

ModifierNames == { ModifierName(MODIFIER_ORDER[i]) : i \in 1..4 }

\* <<spelling in lower case, modifier>>
ModifierSpellings ==
    { <<<<"c","m","d">>, "Cmd">>, <<<<"c","o","m","m","a","n","d">>, "Cmd">>,
      <<<<"s","u","p","e","r">>, "Cmd">>, <<<<"m","e","t","a">>, "Cmd">>,
      <<<<"s","h","i","f","t">>, "Shift">>,
      <<<<"a","l","t">>, "Alt">>, <<<<"o","p","t","i","o","n">>, "Alt">>,
      <<<<"c","t","r","l">>, "Ctrl">>, <<<<"c","o","n","t","r","o","l">>, "Ctrl">> }

\* <<spelling in lower case, canonical key token>>
KeySpellings ==
    { <<<<LowerAlpha[i]>>, <<UpperAlpha[i]>>>> : i \in 1..26 }
    \cup { <<<<"k","e","y",LowerAlpha[i]>>, <<UpperAlpha[i]>>>> : i \in 1..26 }
    \cup { <<<<d>>, <<d>>>> : d \in DigitChars }
    \cup { <<<<"d","i","g","i","t",d>>, <<d>>>> : d \in DigitChars }
    \cup { <<toLowerCase(k), k>> : k \in FunctionKeys \cup ControlKeys \cup PunctuationKeys }
    \cup { <<<<"m","i","n","u","s">>, <<"-">>>>,
           <<<<"e","q","u","a","l">>, <<"=">>>>,
           <<<<"e","q","u","a","l","s">>, <<"=">>>>,
           <<<<"b","r","a","c","k","e","t","l","e","f","t">>, <<"[">>>>,
           <<<<"b","r","a","c","k","e","t","r","i","g","h","t">>, <<"]">>>>,
           <<<<"s","e","m","i","c","o","l","o","n">>, <<";">>>>,
           <<<<"q","u","o","t","e">>, <<"'">>>>,
           <<<<"c","o","m","m","a">>, <<",">>>>,
           <<<<"p","e","r","i","o","d">>, <<".">>>>,
           <<<<"s","l","a","s","h">>, <<"/">>>>,
           <<<<"b","a","c","k","s","l","a","s","h">>, <<Backslash>>>>,
           <<<<"i","n","t","l","b","a","c","k","s","l","a","s","h">>, <<Backslash>>>>,
           <<<<"b","a","c","k","q","u","o","t","e">>, <<Backquote>>>>,
           <<<<"g","r","a","v","e">>, <<Backquote>>>>,
           <<<<"e","s","c">>, <<"E","s","c","a","p","e">>>> }

ModifierAliases == { p[1] : p \in ModifierSpellings }
ModifierOfAlias == [a \in ModifierAliases |-> (CHOOSE p \in ModifierSpellings : p[1] = a)[2]]
RecognizedKeySpellings == { p[1] : p \in KeySpellings }
KeyOfSpelling == [k \in RecognizedKeySpellings |-> (CHOOSE p \in KeySpellings : p[1] = k)[2]]

\* What a token denotes, case and surrounding blanks aside.
IsModifierAlias(token) == toLowerCase(trim(token)) \in ModifierAliases
DenotedModifier(token) == ModifierOfAlias[toLowerCase(trim(token))]
IsKeySpelling(token) == toLowerCase(trim(token)) \in RecognizedKeySpellings
DenotedKey(token) == KeyOfSpelling[toLowerCase(trim(token))]

\* The '+'-delimited tokens of an input, and those of each class.
TokensOf(s) == split(s)
ModifierTokens(s) ==
    LET toks == split(s) IN { i \in 1..Len(toks) : IsModifierAlias(toks[i]) }
KeyTokens(s) ==
    LET toks == split(s) IN { i \in 1..Len(toks) : IsKeySpelling(toks[i]) }
DenotedModifiers(s) ==
    LET toks == split(s) IN { DenotedModifier(toks[i]) : i \in ModifierTokens(s) }

\* A valid input: every token is a modifier alias or a key spelling, with
\* at least one modifier and exactly one key.
ValidInput(s) ==
    LET mods == ModifierTokens(s)
        keys == KeyTokens(s)
    IN  /\ mods \cup keys = 1..Len(TokensOf(s))
        /\ mods # {}
        /\ Cardinality(keys) = 1

\* The canonical string of a modifier set and a key token.
CanonicalString(mods, key) ==
    (IF "Cmd"   \in mods THEN <<"C","m","d","+">>         ELSE <<>>) \o
    (IF "Shift" \in mods THEN <<"S","h","i","f","t","+">> ELSE <<>>) \o
    (IF "Alt"   \in mods THEN <<"A","l","t","+">>         ELSE <<>>) \o
    (IF "Ctrl"  \in mods THEN <<"C","t","r","l","+">>     ELSE <<>>) \o key

\* The glyph string of a modifier set and a key token.
GlyphString(mods, key) ==
    (IF "Cmd"   \in mods THEN <<GlyphCmd>>   ELSE <<>>) \o
    (IF "Shift" \in mods THEN <<GlyphShift>> ELSE <<>>) \o
    (IF "Alt"   \in mods THEN <<GlyphAlt>>   ELSE <<>>) \o
    (IF "Ctrl"  \in mods THEN <<GlyphCtrl>>  ELSE <<>>) \o key

Succeeded(r) == r # Unset /\ r # Null

\* Position of a modifier name in the fixed order Cmd, Shift, Alt, Ctrl.
OrderIndex(name) == CHOOSE i \in 1..4 : ModifierName(MODIFIER_ORDER[i]) = name

Contains(s, pat) == \E i \in 1..Len(s) : StartsWith(s, i, pat)

----------------------------------------------------------------------------
(* Claims about the shortcut codec, checked under SpecCodec.               *)

\* C1: whenever normalizeShortcutString returns a result, the result has at
\* least one modifier of {Cmd, Shift, Alt, Ctrl} and exactly one key token of
\* the closed key vocabulary, and nothing else.
C1_ResultHasModifierAndKey ==
    Succeeded(normalized) =>
        LET toks == split(normalized)
        IN  /\ \E i \in 1..Len(toks) : toks[i] \in ModifierNames
            /\ Cardinality({ i \in 1..Len(toks) : toks[i] \in KeyVocabulary }) = 1
            /\ \A i \in 1..Len(toks) : toks[i] \in ModifierNames \cup KeyVocabulary

\* C2: normalizeShortcutString returns null for every input with fewer than
\* 2 tokens, more than one non-modifier token, no modifier, or a token (an
\* empty one included) that is neither a modifier alias nor a key spelling.
C2_MalformedInputFails ==
    LET toks == TokensOf(shortcut)
        mods == ModifierTokens(shortcut)
        malformed ==
            \/ Len(toks) < 2
            \/ Cardinality((1..Len(toks)) \ mods) > 1
            \/ mods = {}
            \/ \E i \in 1..Len(toks) : ~IsModifierAlias(toks[i]) /\ ~IsKeySpelling(toks[i])
    IN  (normalized # Unset /\ malformed) => normalized = Null

\* C3: a result lists each modifier of the input once, in the order Cmd,
\* Shift, Alt, Ctrl whatever their order and repetition in the input, then
\* the key token last, joined by '+'.
C3_ModifiersOrderedKeyLast ==
    (cpc = "normalized" /\ normalized # Null) =>
        LET toks == split(normalized)
            n    == Len(toks)
        IN  /\ n >= 1
            /\ toks[n] \in KeyVocabulary
            /\ \A i \in 1..(n - 1) : toks[i] \in ModifierNames
            /\ \A i, j \in 1..(n - 1) : i < j => OrderIndex(toks[i]) < OrderIndex(toks[j])
            /\ { toks[i] : i \in 1..(n - 1) }
                 = { ModifierName(m) : m \in DenotedModifiers(shortcut) }

\* C3 witness: an input naming Shift before Cmd has normalized to Cmd+Shift+3.
C3_Witness ==
    /\ shortcut = <<"S","h","i","f","t","+","c","m","d","+","3">>
    /\ normalized = <<"C","m","d","+","S","h","i","f","t","+","3">>

\* C4: for a valid input, normalizing succeeds, and normalizing a result
\* again succeeds and gives the same string.
C4_Idempotent ==
    /\ (cpc = "normalized" /\ ValidInput(shortcut)) => normalized # Null
    /\ (cpc = "renormalized" /\ ValidInput(shortcut)) => renormalized = normalized

\* C4 witness: a valid input spelled non-canonically has been normalized twice.
C4_Witness ==
    /\ cpc = "renormalized"
    /\ ValidInput(shortcut)
    /\ shortcut = <<"o","p","t","i","o","n","+","e","s","c">>
    /\ renormalized = <<"A","l","t","+","E","s","c","a","p","e">>

\* C5: a valid input normalizes to the canonical string of the modifier set
\* and the key it denotes, so two inputs denoting the same shortcut get the
\* same string whatever the order, case, alias or key spelling.
C5_SameShortcutSameString ==
    (cpc = "normalized" /\ ValidInput(shortcut)) =>
        normalized = CanonicalString(DenotedModifiers(shortcut),
                                     DenotedKey(TokensOf(shortcut)[CHOOSE i \in KeyTokens(shortcut) : TRUE]))

\* C5 witness: "Command+digit3" has normalized to "Cmd+3".
C5_Witness ==
    /\ shortcut = <<"C","o","m","m","a","n","d","+","d","i","g","i","t","3">>
    /\ normalized = <<"C","m","d","+","3">>

\* C6: for an input that normalizes, the display string is the glyphs of the
\* result's modifiers in canonical order, then its key token, with no '+' and
\* no modifier name left.
C6_DisplayIsGlyphsThenKey ==
    (cpc = "formatted" /\ normalized # Null) =>
        LET toks == split(normalized)
            mods == { m \in {"Cmd", "Shift", "Alt", "Ctrl"} :
                        \E i \in 1..(Len(toks) - 1) : toks[i] = ModifierName(m) }
        IN  /\ displayed = GlyphString(mods, toks[Len(toks)])
            /\ ~Contains(displayed, <<"+">>)
            /\ \A name \in ModifierNames : ~Contains(displayed, name)

\* C6 witness: "cmd+Shift+3" is displayed as the two glyphs and "3".
C6_Witness ==
    /\ shortcut = <<"c","m","d","+","S","h","i","f","t","+","3">>
    /\ normalized = <<"C","m","d","+","S","h","i","f","t","+","3">>
    /\ displayed = <<GlyphCmd, GlyphShift, "3">>

\* C7: formatShortcutForDisplay always returns a string, and when the
\* normalization fails the string is the raw input with its modifier names
\* turned into glyphs and its '+' removed.
C7_DisplayNeverFails ==
    cpc = "formatted" =>
        /\ displayed # Null
        /\ \A i \in 1..Len(displayed) : displayed[i] \notin {"null", "unset"}
        /\ normalized = Null =>
             /\ displayed = replaceAll(
                    replaceAll(replaceAll(replaceAll(replaceAll(shortcut,
                        <<"C","m","d">>, <<GlyphCmd>>),
                        <<"S","h","i","f","t">>, <<GlyphShift>>),
                        <<"A","l","t">>, <<GlyphAlt>>),
                        <<"C","t","r","l">>, <<GlyphCtrl>>),
                    <<"+">>, <<>>)
             /\ (~Contains(shortcut, <<"+">>) /\ \A name \in ModifierNames : ~Contains(shortcut, name))
                    => displayed = shortcut

\* C7 witness: "Shift+Ctrl" does not normalize and is displayed as two glyphs.
C7_Witness ==
    /\ shortcut = <<"S","h","i","f","t","+","C","t","r","l">>
    /\ normalized = Null
    /\ displayed = <<GlyphShift, GlyphCtrl>>

----------------------------------------------------------------------------
(* Claims about the stitch run, checked under SpecStitch.                  *)

CallsOf(command) == { k \in 1..Len(calls) : calls[k] = command }

RECURSIVE SumOfHeights(_)
SumOfHeights(files) ==
    IF files = <<>> THEN 0 ELSE Head(files).height + SumOfHeights(Tail(files))

C9_TooManyBeforeAnyFetch ==
    Len(paths) > 8 =>
        /\ error = "TooManyImages"
        /\ CallsOf("read_original_image_base64") = {}
        /\ CallsOf("loadImage") = {}
        /\ fetched = {} /\ loaded = {}
        /\ result = NoResult
        /\ CallsOf("show_alert") # {}

\* C9 witness: a run with 9 selected images has ended after its alert.
C9_Witness ==
    /\ Len(paths) = 9
    /\ spc = "idle"
    /\ calls = <<"get_finder_selection", "show_alert", "clear_stitch_lock">>

\* C10: a run in which the fetch or the decode of some source fails returns
\* no composite and invokes neither save_stitch_temp nor open_rename_popup;
\* so does every run over a selection holding an unreadable or undecodable
\* source.
C10_NoPartialOutput ==
    (\/ error \in {"read_original_image_base64 failed", "ImageErrorEvent"}
     \/ \E i \in 1..Len(paths) : ~paths[i].readable \/ ~paths[i].decodable) =>
        /\ result = NoResult
        /\ CallsOf("save_stitch_temp") = {}
        /\ CallsOf("open_rename_popup") = {}

\* C10 witness: every source was fetched, one failed to decode, and the run
\* has ended.
C10_Witness ==
    /\ error = "ImageErrorEvent"
    /\ Len(paths) >= 2
    /\ fetched = 1..Len(paths)
    /\ loaded # {}
    /\ spc = "idle"

\* C11: a run that ended because a source image failed to decode has shown
\* the user a message (show_alert), and has not only logged the failure.
C11_DecodeFailureShown ==
    (error = "ImageErrorEvent" /\ spc = "idle") => CallsOf("show_alert") # {}

\* C12: every run that has ended, whatever its exit path, has invoked
\* clear_stitch_lock.
C12_LockClearedOnEveryExit ==
    (spc = "idle" /\ runs > 0) => CallsOf("clear_stitch_lock") # {}

\* C13: stitchImages is called only with 2 to 8 paths, and a run with fewer
\* than 2 selected paths fetches, decodes, composes, saves and opens nothing.
C13_CallerEnforcesBounds ==
    /\ CallsOf("stitchImages") # {} => Len(paths) \in 2..8
    /\ (spc # "selecting" /\ Len(paths) < 2) =>
           /\ CallsOf("stitchImages") = {}
           /\ CallsOf("read_original_image_base64") = {}
           /\ CallsOf("loadImage") = {}
           /\ CallsOf("save_stitch_temp") = {}
           /\ CallsOf("open_rename_popup") = {}
           /\ fetched = {} /\ loaded = {}
           /\ result = NoResult

\* C13 witness: a run with a single selected image has returned after
\* clearing the lock, having called nothing else.
C13_Witness ==
    /\ Len(paths) = 1
    /\ spc = "idle"
    /\ calls = <<"get_finder_selection", "clear_stitch_lock">>

IsDrawImage(o) == o.op = "drawImage"
IsBand(o) == o.op = "fillRect" /\ o.paint = "#ffffff"
IsBar(o) == o.op = "fillRect" /\ o.paint = "#333333"

\* The drawImage calls of the composite, the separator bands (the fills in
\* the background colour after the first, which clears the canvas) and the
\* dark bars, each in the order painted.
DrawnImages == SelectSeq(result.base64Data, IsDrawImage)
Bands == Tail(SelectSeq(result.base64Data, IsBand))
Bars == SelectSeq(result.base64Data, IsBar)

\* Position in the composite of the first call equal to o.
PaintIndex(o) ==
    CHOOSE k \in 1..Len(result.base64Data) :
        /\ result.base64Data[k] = o
        /\ \A j \in 1..(k - 1) : result.base64Data[j] # o

C20_CompletionOrderIrrelevant ==
    /\ CallsOf("loadImage") # {} => fetched = 1..Len(paths)
    /\ (fetched # 1..Len(paths) \/ loaded # 1..Len(paths)) => result = NoResult
    /\ result # NoResult =>
           /\ Len(images) = Len(paths)
           /\ \A i \in 1..Len(paths) :
                  /\ images[i].width = paths[i].width
                  /\ images[i].height = paths[i].height
           /\ Len(DrawnImages) = Len(paths)
           /\ \A i \in 1..Len(paths) :
                  /\ DrawnImages[i].w = paths[i].width
                  /\ DrawnImages[i].h = paths[i].height
           /\ \A i \in 1..(Len(paths) - 1) :
                  /\ PaintIndex(DrawnImages[i]) < PaintIndex(DrawnImages[i + 1])
                  /\ DrawnImages[i].y < DrawnImages[i + 1].y

\* C20 witness: a read and a decode each completed ahead of an earlier
\* source, and the composite of 100x50, 200x80, 100x50 was still drawn.
C20_Witness ==
    /\ outOfOrder = {"fetch", "decode"}
    /\ Len(paths) = 3
    /\ paths[1].width = 100 /\ paths[2].width = 200
    /\ result # NoResult
    /\ DrawnImages[1].w = 100 /\ DrawnImages[2].w = 200

----------------------------------------------------------------------------
(* Claims about the shortcut recorder, the listener and the host, checked  *)
(* under SpecConfig.                                                       *)

\* The shortcut strings of the model and their normalized forms.
ShortcutStrings ==
    {CmdShift3, CmdShift4, CmdShift2} \cup
    ({ keyEventToShortcut(e) : e \in KeyEvents } \ {Null})
NormalizedOf == [s \in ShortcutStrings |-> normalizeShortcutString(s)]
SameShortcut(a, b) == NormalizedOf[a] # Null /\ NormalizedOf[a] = NormalizedOf[b]

\* C17: a recorded shortcut that equals, in normalized form, the other
\* shortcut is stopped in the popup: no update_shortcuts call is ever made
\* with a fullscreen and an area shortcut that are the same shortcut.
C17_DuplicateNeverSent ==
    \A k \in 1..Len(updates) :
        ~SameShortcut(updates[k].newSettings.fullscreenShortcut,
                      updates[k].newSettings.areaShortcut)

\* C18: when an update_shortcuts call of the listener fails, the step that
\* handles the failure changes no field of the settings and stores the
\* failure message in shortcutError.
C18_FailureKeepsSettings ==
    [][\A k \in 1..Len(updates) :
          (updates[k].stage = "err" /\ updates'[k].stage = "done") =>
              /\ settings' = settings
              /\ shortcutError' = updates[k].message
              /\ shortcutError' # NoShortcutError]_vars

\* C18 witness: Cmd+Shift+F was recorded for the fullscreen shortcut, its
\* registration failed, the message is shown and the settings are the old.
C18_Witness ==
    /\ Len(updates) = 1
    /\ updates[1].stage = "done"
    /\ updates[1].target = "fullscreen"
    /\ updates[1].message = "Failed to register fullscreen shortcut"
    /\ shortcutError = "Failed to register fullscreen shortcut"
    /\ settings = InitialSettings

----------------------------------------------------------------------------
(* Claims about the filename-template editor, checked under SpecTemplate.  *)

TimeOrCounterEnabled(bs) == findEnabled(bs, "time") \/ findEnabled(bs, "counter")

\* C19: Time or Counter is enabled in the editor and in the template of the
\* settings at all times, and a toggle of the only enabled one of the two
\* leaves the blocks and the template as they were.
C19_TimeOrCounterStaysEnabled ==
    /\ [](/\ TimeOrCounterEnabled(blocks)
          /\ TimeOrCounterEnabled(settings.filenameTemplate.blocks))
    /\ [][\A id \in {"time", "counter"} :
             (/\ handleToggle(id)
              /\ findEnabled(blocks, id)
              /\ ~findEnabled(blocks, otherOf(id))) =>
                 /\ blocks' = blocks
                 /\ settings'.filenameTemplate = settings.filenameTemplate]_vars

\* C19 witness: after a load, toggles, a prefix change and moves, Counter is
\* the only enabled block.
C19_Witness ==
    /\ lastSavedSettings # NotLoaded
    /\ saveStatus = "dirty"
    /\ moves = 2
    /\ \A i \in 1..Len(blocks) : blocks[i].enabled <=> blocks[i].id = "counter"
    /\ \E i \in 1..Len(blocks) : blocks[i].id = "prefix" /\ blocks[i].value = "shot"
    /\ settings.filenameTemplate.blocks = blocks

\* C21: every block other than Time and Counter can be disabled: a toggle of
\* such a block flips it and leaves the other blocks alone, whatever is
\* enabled, and the template of the settings follows.  From the default
\* template this reaches the state of C21_Witness.
C21_OtherBlocksCanBeDisabled ==
    [][\A id \in BlockIds \ {"time", "counter"} :
          handleToggle(id) =>
              /\ Len(blocks') = Len(blocks)
              /\ \A i \in 1..Len(blocks) :
                     blocks'[i] = IF blocks[i].id = id
                                  THEN [blocks[i] EXCEPT !.enabled = ~blocks[i].enabled]
                                  ELSE blocks[i]
              /\ settings'.filenameTemplate.blocks = blocks']_vars

\* C21 witness: nothing was loaded, moved or typed, and of the blocks of the
\* default template, in their order, Counter is the only enabled one.
C21_Witness ==
    /\ lastSavedSettings = NotLoaded
    /\ moves = 0
    /\ showFilenameTemplate
    /\ blocks = [i \in 1..Len(DEFAULT_FILENAME_TEMPLATE.blocks) |->
                    [DEFAULT_FILENAME_TEMPLATE.blocks[i] EXCEPT
                        !.enabled = (DEFAULT_FILENAME_TEMPLATE.blocks[i].id = "counter")]]
    /\ settings.filenameTemplate.blocks = blocks

\* The number of blocks of bs with the id.
CountOf(bs, id) == Cardinality({i \in 1..Len(bs) : bs[i].id = id})

IsPermutationOfBlockIds(bs) ==
    /\ Len(bs) = Cardinality(BlockIds)
    /\ \A id \in BlockIds : CountOf(bs, id) = 1

\* C29: the blocks of the editor and of the settings hold each block id
\* once at all times; a move to a place inside the list exchanges the two
\* neighbours and leaves the other blocks alone, and a move past either end
\* changes neither the blocks nor the settings nor the save status.
C29_BlocksArePermutation ==
    /\ [](/\ IsPermutationOfBlockIds(blocks)
          /\ IsPermutationOfBlockIds(settings.filenameTemplate.blocks))
    /\ [][\A index \in 1..Len(blocks), direction \in {"up", "down"} :
             moveBlock(index, direction) =>
                 LET newIndex == IF direction = "up" THEN index - 1 ELSE index + 1
                 IN  IF newIndex \in 1..Len(blocks)
                     THEN /\ blocks' = [i \in 1..Len(blocks) |->
                                           IF i = index THEN blocks[newIndex]
                                           ELSE IF i = newIndex THEN blocks[index]
                                           ELSE blocks[i]]
                          /\ settings'.filenameTemplate.blocks = blocks'
                     ELSE /\ blocks' = blocks
                          /\ settings' = settings
                          /\ saveStatus' = saveStatus]_vars

\* C29 witness: after a toggle of Date, a prefix change and two moves, one
\* of them past an end, Date and the prefix have changed places.
C29_Witness ==
    /\ lastSavedSettings = NotLoaded
    /\ moves = 2
    /\ blocks = << Block("date", FALSE, ""),
                   Block("prefix", TRUE, "shot"),
                   Block("time", TRUE, ""),
                   Block("quality", TRUE, ""),
                   Block("dimensions", TRUE, ""),
                   Block("counter", FALSE, "") >>
    /\ settings.filenameTemplate.blocks = blocks

----------------------------------------------------------------------------
(* Claims about the host command and the listener, checked under           *)
(* SpecConfig.                                                             *)

\* The k-th update_shortcuts call returns an error in this step.
ReturnsError(k) ==
    /\ k \in 1..Len(updates)
    /\ updates[k].stage = "sent"
    /\ updates'[k].stage = "err"

ErrorBeforeStoreLeavesHostUnchanged ==
    [][\A k \in 1..MaxConfigs :
          (ReturnsError(k) /\ updates'[k].message # "Failed to save settings") =>
              /\ hostSettings' = hostSettings
              /\ registered' = registered]_vars

\* The shortcut field of the settings s an event for the target sets.
shortcutOf(s, target) ==
    IF target = "fullscreen" THEN s.fullscreenShortcut
    ELSE IF target = "area" THEN s.areaShortcut
    ELSE s.stitchShortcut

\* C23: when an accepted call resolves, the settings become the settings of
\* that moment with the target's field set to the delivered shortcut, every
\* other field as it was, and the save status is left unchanged.
C23_AcceptedEventChangesTargetOnly ==
    [][\A k \in 1..MaxConfigs :
          UpdateResolved(k) =>
              /\ settings' = newSettingsFor(updates[k].target, updates[k].recorded)
              /\ saveStatus' = saveStatus]_vars

\* The host accepted the k-th call.
Accepted(k) == updates[k].stage \in {"ok", "done"} /\ updates[k].message = ""

\* C28: of two accepted calls for different targets, the later one sent
\* while the earlier one was in flight, the later one carries the earlier
\* one's shortcut for its target, and once both have resolved the settings
\* hold both shortcuts.
C28_NoLostUpdate ==
    \A j, k \in 1..Len(updates) :
        (/\ j \in updates[k].inFlight
         /\ updates[j].target # updates[k].target
         /\ Accepted(j)
         /\ Accepted(k)) =>
            /\ shortcutOf(updates[k].newSettings, updates[j].target) = updates[j].recorded
            /\ (updates[j].stage = "done" /\ updates[k].stage = "done") =>
                   /\ shortcutOf(settings, updates[j].target) = updates[j].recorded
                   /\ shortcutOf(settings, updates[k].target) = updates[k].recorded

----------------------------------------------------------------------------
(* Claims about the save status, the timer and Back, checked under         *)
(* SpecSettings.                                                           *)

\* C24: while the status is "saved", the settings of the window are the
\* settings save_settings persisted last.
C24_SavedMeansPersisted ==
    saveStatus = "saved" => settings = persisted

\* C25: the callback of the status-reset timer runs only while the status
\* is "saved", so it turns no other status into "idle".
C25_TimerResetsSavedOnly ==
    [][StatusTimerExpired => saveStatus = "saved"]_vars

\* C26: Back in the template view, pressed after settings were loaded or
\* saved, leaves the settings equal to the last loaded or saved ones, the
\* status "idle", no timer pending and the template view closed.
C26_BackDiscardsEdits ==
    [][(handleTemplateBack /\ lastSavedSettings # NotLoaded) =>
          /\ settings' = lastSavedSettings
          /\ settings' = persisted
          /\ blocks' = lastSavedSettings.filenameTemplate.blocks
          /\ saveStatus' = "idle"
          /\ ~saveStatusTimeoutRef'
          /\ ~showFilenameTemplate']_vars

\* C26 witness: the template view is closed and the status "idle" with the
\* loaded settings in place while two saves of an edited template, which
\* had set the status to "saving", are still in flight.
C26_Witness ==
    /\ lastSavedSettings # NotLoaded
    /\ settings = lastSavedSettings
    /\ saveStatus = "idle"
    /\ ~saveStatusTimeoutRef
    /\ ~showFilenameTemplate
    /\ Len(saves) = 2
    /\ \A k \in 1..Len(saves) :
           saves[k].filenameTemplate # lastSavedSettings.filenameTemplate

----------------------------------------------------------------------------
(* Claim about the shortcuts of the panel and of the host, checked under   *)
(* SpecWindow.                                                             *)

\* C27: while no update_shortcuts call is in flight, the shortcuts of the
\* settings of the window are the ones update_shortcuts accepted last, which
\* the host holds.
C27_ShortcutsAreTheAcceptedOnes ==
    (\A j \in 1..Len(updates) : updates[j].stage = "done") =>
        /\ settings.fullscreenShortcut = hostSettings.fullscreenShortcut
        /\ settings.areaShortcut = hostSettings.areaShortcut

----------------------------------------------------------------------------
(* Claim about the equality of canonical strings, checked under SpecCodec. *)

\* The inputs of at most n tokens.
RECURSIVE InputsUpTo(_)
InputsUpTo(n) ==
    IF n <= 1 THEN RawTokens
    ELSE LET shorter == InputsUpTo(n - 1)
         IN  shorter \cup { s \o <<"+">> \o t : s \in shorter, t \in RawTokens }

\* The keys the key spellings of an input denote.
DenotedKeys(s) ==
    LET toks == split(s) IN { DenotedKey(toks[i]) : i \in KeyTokens(s) }

\* For each input of at most MaxOtherTokens tokens that normalizes: its
\* canonical string, the modifiers and the keys it denotes.
CanonicalClasses ==
    { c \in { <<normalizeShortcutString(o), DenotedModifiers(o), DenotedKeys(o)>> :
                  o \in InputsUpTo(MaxOtherTokens) } : c[1] # Null }

\* C30: an input that normalizes to the canonical string of another input
\* denotes the same modifiers and the same key as that input, and the key
\* is the last token of the string.
C30_EqualStringsSameShortcut ==
    (cpc = "normalized" /\ normalized # Null) =>
        /\ DenotedKeys(shortcut) = { split(normalized)[Len(split(normalized))] }
        /\ \A c \in CanonicalClasses :
               c[1] = normalized => /\ c[2] = DenotedModifiers(shortcut)
                                    /\ c[3] = DenotedKeys(shortcut)

\* C30 witness: "Command+digit3" has normalized to "Cmd+3", the canonical
\* string of the different input "cmd+3" too.
C30_Witness ==
    /\ cpc = "normalized"
    /\ shortcut = <<"C","o","m","m","a","n","d","+","d","i","g","i","t","3">>
    /\ normalized = <<"C","m","d","+","3">>
    /\ <<normalized, {"Cmd"}, {<<"3">>}>> \in CanonicalClasses

====
